---------------------------- MODULE Spec2Model ----------------------------
(***************************************************************************)
(* The shared application state manager of the school administration       *)
(* front-end (SchoolDataProvider) in its two implementations:              *)
(*   "local"  : src/contexts/SchoolDataContext.tsx (localStorage)          *)
(*   "remote" : src/unnamed/part_000               (supabase backend)      *)
(*                                                                         *)
(* React state is modelled by the value every queued updater has produced  *)
(* (students, transactions, events, employees, isLoading) and by the       *)
(* snapshot of the last committed render (view, kpis): handlers close over *)
(* the rendered snapshot, useMemo and the save effects run at a render.    *)
(* An adapter call that is awaited is a request in `inflight`; the step    *)
(* that returns it runs the handler's continuation up to its next await.   *)
(***************************************************************************)
EXTENDS Integers, Sequences, FiniteSets, TLC

(***************************************************************************)
(* Bounds of the model                                                     *)
(***************************************************************************)
\* number of store operations (mutations and refreshes) issued in a behaviour
MaxCalls == 2

(***************************************************************************)
(* Values                                                                  *)
(***************************************************************************)
Undefined == "undefined"   \* an optional field that is absent (studentId?)
Null      == "null"        \* SQL NULL / localStorage.getItem of a missing key
Corrupt   == "corrupt"     \* a stored string JSON.parse throws on
NoStudent == [id |-> Undefined, name |-> Undefined,
              paidMonths |-> <<>>, financialStatus |-> Undefined]

Impls    == {"local", "remote"}
TableSet == {"students", "transactions", "events", "employees"}

\* JavaScript truthiness of an optional string (t.studentId && ...)
Truthy(x) == x \notin {Undefined, Null}

(***************************************************************************)
(* Sequence helpers (Array.prototype.map / filter / find / reduce)         *)
(***************************************************************************)
Range(s) == {s[i] : i \in 1..Len(s)}

Ids(s) == {s[i].id : i \in 1..Len(s)}

\* students.find(s => s.id === id): the first match, or NoStudent (undefined)
Find(s, id) ==
    IF \E i \in 1..Len(s) : s[i].id = id
    THEN s[CHOOSE i \in 1..Len(s) :
               s[i].id = id /\ \A j \in 1..(i-1) : s[j].id # id]
    ELSE NoStudent

\* prev.map(item => item.id === e.id ? e : item)
ReplaceById(s, e) == [i \in 1..Len(s) |-> IF s[i].id = e.id THEN e ELSE s[i]]

\* prev.filter(ev => ev.id !== id)
RemoveById(s, id) == SelectSeq(s, LAMBDA x : x.id # id)

\* every ordering of the rows of s
Perms(s) ==
    {p \in [1..Len(s) -> Range(s)] :
        \E f \in [1..Len(s) -> 1..Len(s)] :
            /\ \A i, j \in 1..Len(s) : i # j => f[i] # f[j]
            /\ \A i \in 1..Len(s) : p[i] = s[f[i]]}

(***************************************************************************)
(* Status Classifier: getStudentFinancialStatus of lib/utils, which is not *)
(* among the source files; modelled from the specification (4.1) as a pure *)
(* function of (paidPeriods, orderedPeriodList, currentPeriodIndex).       *)
(***************************************************************************)
ACADEMIC_MONTHS == <<"Fev", "Mar", "Abr">>

\* the current period of the academic cycle is ACADEMIC_MONTHS[CurrentPeriodIndex]
CurrentPeriodIndex == 2

ClassifyAt(paidPeriods, periods, current) ==
    IF Len(paidPeriods) = 0 THEN "pending"
    ELSE IF \A i \in 1..current : periods[i] \in Range(paidPeriods) THEN "paid"
    ELSE "late"

getStudentFinancialStatus(paidMonths) ==
    ClassifyAt(paidMonths, ACADEMIC_MONTHS, CurrentPeriodIndex)

(***************************************************************************)
(* Reconciliation helpers                                                  *)
(***************************************************************************)
\* Array.from(new Set(arr)): the first occurrence of every element, in order
RECURSIVE ArrayFromSet(_)
ArrayFromSet(arr) ==
    IF arr = <<>> THEN <<>>
    ELSE LET init == ArrayFromSet(SubSeq(arr, 1, Len(arr) - 1))
             x    == arr[Len(arr)]
         IN  IF x \in Range(init) THEN init ELSE Append(init, x)

\* Array.from(new Set([...s.paidMonths, ...t.paidMonths]))
MergePaidMonths(old, new) == ArrayFromSet(old \o new)

\* { ...s, paidMonths: updatedPaidMonths, financialStatus: newStatus }
Reconciled(s, t) ==
    LET updatedPaidMonths == MergePaidMonths(s.paidMonths, t.paidMonths)
    IN  [s EXCEPT !.paidMonths = updatedPaidMonths,
                  !.financialStatus = getStudentFinancialStatus(updatedPaidMonths)]

\* if (t.studentId && t.paidMonths && t.paidMonths.length > 0)
ReconcileCondition(t) == Truthy(t.studentId) /\ Len(t.paidMonths) > 0

(***************************************************************************)
(* KPI Aggregator (useMemo over students and transactions)                 *)
(***************************************************************************)
RECURSIVE SumAmount(_)
SumAmount(s) == IF s = <<>> THEN 0 ELSE s[1].amount + SumAmount(Tail(s))

\* parseFloat(x.toFixed(1)) of late / total * 100, held in tenths of a percent
\* (round half up on the third significant digit)
RateTenths(late, total) == (2000 * late + total) \div (2 * total)

\* ComputeKpis with the status filter left out of both sums (sensitivity of C10)
ComputeKpis_AnyStatus(sts, txs) ==
    LET totalStudents == Len(sts)
        revenue  == SumAmount(SelectSeq(txs, LAMBDA t : t.type = "income"))
        expenses == SumAmount(SelectSeq(txs, LAMBDA t : t.type = "expense"))
        lateStudents == Len(SelectSeq(sts,
                        LAMBDA s : getStudentFinancialStatus(s.paidMonths) = "late"))
    IN  [totalStudents   |-> totalStudents,
         totalRevenue    |-> revenue,
         totalExpenses   |-> expenses,
         netBalance      |-> revenue - expenses,
         delinquencyRate |-> IF totalStudents > 0
                             THEN RateTenths(lateStudents, totalStudents) ELSE 0]

\* ComputeKpis counting the late students by their stored financialStatus
\* (sensitivity of C11)
ComputeKpis_StoredStatus(sts, txs) ==
    LET totalStudents == Len(sts)
        revenue  == SumAmount(SelectSeq(txs,
                        LAMBDA t : t.type = "income" /\ t.status = "completed"))
        expenses == SumAmount(SelectSeq(txs,
                        LAMBDA t : t.type = "expense" /\ t.status = "completed"))
        lateStudents == Len(SelectSeq(sts, LAMBDA s : s.financialStatus = "late"))
    IN  [totalStudents   |-> totalStudents,
         totalRevenue    |-> revenue,
         totalExpenses   |-> expenses,
         netBalance      |-> revenue - expenses,
         delinquencyRate |-> IF totalStudents > 0
                             THEN RateTenths(lateStudents, totalStudents) ELSE 0]

ComputeKpis(sts, txs) ==
    LET totalStudents == Len(sts)
        revenue  == SumAmount(SelectSeq(txs,
                        LAMBDA t : t.type = "income" /\ t.status = "completed"))
        expenses == SumAmount(SelectSeq(txs,
                        LAMBDA t : t.type = "expense" /\ t.status = "completed"))
        lateStudents == Len(SelectSeq(sts,
                        LAMBDA s : getStudentFinancialStatus(s.paidMonths) = "late"))
    IN  [totalStudents   |-> totalStudents,
         totalRevenue    |-> revenue,
         totalExpenses   |-> expenses,
         netBalance      |-> revenue - expenses,
         delinquencyRate |-> IF totalStudents > 0
                             THEN RateTenths(lateStudents, totalStudents) ELSE 0]

(***************************************************************************)
(* Persistence representations                                             *)
(***************************************************************************)
\* Date.prototype.toISOString / new Date(isoString)
ToISOString(d) == [iso |-> d]
NewDate(str)   == str.iso

\* remote backend: entity <-> row (snake_case columns)
StudentToRow(s) ==
    [id |-> s.id, name |-> s.name,
     financial_status |-> s.financialStatus, paid_months |-> s.paidMonths]
StudentFromRow(r) ==
    [id |-> r.id, name |-> r.name,
     financialStatus |-> r.financial_status, paidMonths |-> r.paid_months]

TransactionToRow(t) ==
    [id |-> t.id, date |-> t.date, amount |-> t.amount, type |-> t.type,
     status |-> t.status,
     student_id |-> IF Truthy(t.studentId) THEN t.studentId ELSE Null,
     paid_months |-> t.paidMonths]
TransactionFromRow(r) ==
    [id |-> r.id, date |-> r.date, amount |-> r.amount, type |-> r.type,
     status |-> r.status, studentId |-> r.student_id,
     paidMonths |-> r.paid_months]

EventToRow(e) ==
    [id |-> e.id, title |-> e.title,
     start_time |-> ToISOString(e.start), end_time |-> ToISOString(e.end)]
EventFromRow(r) ==
    [id |-> r.id, title |-> r.title,
     start |-> NewDate(r.start_time), end |-> NewDate(r.end_time)]

EmployeeToRow(e) ==
    [id |-> e.id, name |-> e.name,
     salary_base |-> e.salary.base, salary_currency |-> e.salary.currency]
EmployeeFromRow(r) ==
    [id |-> r.id, name |-> r.name,
     salary |-> [base |-> r.salary_base, currency |-> r.salary_currency]]

ToRow(table, e) ==
    CASE table = "students"     -> StudentToRow(e)
      [] table = "transactions" -> TransactionToRow(e)
      [] table = "events"       -> EventToRow(e)
      [] table = "employees"    -> EmployeeToRow(e)

FromRow(table, r) ==
    CASE table = "students"     -> StudentFromRow(r)
      [] table = "transactions" -> TransactionFromRow(r)
      [] table = "events"       -> EventFromRow(r)
      [] table = "employees"    -> EmployeeFromRow(r)

FromRows(table, rows) == [i \in 1..Len(rows) |-> FromRow(table, rows[i])]

\* local storage: JSON.stringify(collection); a Date serialises to its ISO string
JSONStringify(table, coll) ==
    [json |-> IF table = "events"
              THEN [i \in 1..Len(coll) |->
                       [coll[i] EXCEPT !.start = ToISOString(coll[i].start),
                                       !.end   = ToISOString(coll[i].end)]]
              ELSE coll]

\* JSON.parse(saved), with the hydration of the event dates (lines 64-70)
JSONParse(table, saved) ==
    IF table = "events"
    THEN [i \in 1..Len(saved.json) |->
             [saved.json[i] EXCEPT !.start = NewDate(saved.json[i].start),
                                   !.end   = NewDate(saved.json[i].end)]]
    ELSE saved.json

(***************************************************************************)
(* State                                                                   *)
(***************************************************************************)
VARIABLES
    impl,          \* which SchoolDataProvider is mounted: "local" or "remote"
    students,      \* useState<Student[]>
    transactions,  \* useState<Transaction[]>
    events,        \* useState<CalendarEvent[]>
    employees,     \* useState<Employee[]>
    isLoading,     \* useState(true)
    view,          \* the collections and isLoading of the last committed render
    kpis,          \* the useMemo value of the last committed render
    db,            \* remote backend: table -> rows
    localStorage,  \* local backend: key -> Null, Corrupt or [json |-> ...]
    inflight,      \* adapter requests awaited by a handler (remote)
    ncalls,        \* store operations issued so far
    mounted,       \* the mount effects have run
    uncaught,      \* an exception left the provider (uncaught in an effect)
    last           \* the step just taken: [op, call, ok, arg]

vars == <<impl, students, transactions, events, employees, isLoading, view,
          kpis, db, localStorage, inflight, ncalls, mounted, uncaught,
          last>>

mem     == <<students, transactions, events, employees>>
durable == <<db, localStorage>>

Collection(table) ==
    CASE table = "students"     -> students
      [] table = "transactions" -> transactions
      [] table = "events"       -> events
      [] table = "employees"    -> employees

Snapshot ==
    [students |-> students, transactions |-> transactions, events |-> events,
     employees |-> employees, isLoading |-> isLoading]

NoTx  == [id |-> Undefined]
NoArg == [id |-> Undefined]

\* the handlers whose continuations are pending
Pending == {r.k : r \in inflight}

\* An awaited adapter call of handler k, issued by store operation number
\* `call`, and what its continuation closes over (t, closure). atCall and
\* others record, for the properties only, the students collection and the
\* pending handlers at the moment of the call.
Request(call, k, op, table, id, cols, t, closure, atCall) ==
    [call |-> call, k |-> k, op |-> op, table |-> table, id |-> id,
     cols |-> cols, t |-> t, closure |-> closure, atCall |-> atCall,
     others |-> Pending]

Step(op, call, ok, arg) == [op |-> op, call |-> call, ok |-> ok, arg |-> arg]

EmptyTables == [t \in TableSet |-> <<>>]

(***************************************************************************)
(* Construction: useState initial values and the first render              *)
(***************************************************************************)
InitWith(i, rows, saved) ==
    /\ impl = i
    /\ students = <<>>
    /\ transactions = <<>>
    /\ events = <<>>
    /\ employees = <<>>
    /\ isLoading = TRUE
    /\ view = [students |-> <<>>, transactions |-> <<>>, events |-> <<>>,
               employees |-> <<>>, isLoading |-> TRUE]
    /\ kpis = ComputeKpis(<<>>, <<>>)
    /\ db = rows
    /\ localStorage = saved
    /\ inflight = {}
    /\ ncalls = 0
    /\ mounted = FALSE
    /\ uncaught = FALSE
    /\ last = Step("init", 0, TRUE, NoArg)

Alive == mounted /\ ~uncaught

CanCall == Alive /\ ncalls < MaxCalls

(***************************************************************************)
(* Remote backend (supabase): what a request does to the tables            *)
(***************************************************************************)
\* .update(cols).eq('id', id): the named columns of every row with that id
ApplyUpdate(rows, id, cols) ==
    [i \in 1..Len(rows) |->
        IF rows[i].id = id
        THEN [f \in DOMAIN rows[i] |->
                 IF f \in DOMAIN cols THEN cols[f] ELSE rows[i][f]]
        ELSE rows[i]]

\* the table after a successful write
Written(rows, req) ==
    CASE req.op = "insert" -> <<req.cols>> \o rows
      [] req.op = "update" -> ApplyUpdate(rows, req.id, req.cols)
      [] req.op = "delete" -> RemoveById(rows, req.id)
      [] OTHER             -> rows

\* the backend refuses an insert whose primary key exists
CanSucceed(req) ==
    req.op = "insert" => req.id \notin Ids(db[req.table])

\* .select('*') with the handler's .order(...): the possible result arrays.
\* students, employees: created_at descending (rows are kept newest first);
\* transactions: date descending, ties in any order; events: no order given.
SelectResults(table) ==
    CASE table = "transactions" ->
            {p \in Perms(db[table]) :
                \A i, j \in 1..Len(p) : i < j => p[i].date >= p[j].date}
      [] table = "events" -> Perms(db[table])
      [] OTHER -> {db[table]}

NextTable(table) ==
    CASE table = "students"     -> "transactions"
      [] table = "transactions" -> "events"
      [] table = "events"       -> "employees"
      [] OTHER                  -> "none"

SetCollection(table, value) ==
    /\ students'     = IF table = "students"     THEN value ELSE students
    /\ transactions' = IF table = "transactions" THEN value ELSE transactions
    /\ events'       = IF table = "events"       THEN value ELSE events
    /\ employees'    = IF table = "employees"    THEN value ELSE employees

(***************************************************************************)
(* Local backend (localStorage)                                            *)
(***************************************************************************)
Item(kind, coll) == [kind |-> kind, json |-> coll]
NoItem      == Item(Null, <<>>)
CorruptItem == Item(Corrupt, <<>>)
Saved(table, coll) == Item("json", JSONStringify(table, coll).json)

\* the order in which the load effect parses and the save effects run
TableOrder == <<"students", "transactions", "events", "employees">>

Index(table) == CHOOSE i \in 1..4 : TableOrder[i] = table

\* the position of the first stored value JSON.parse throws on (5: none)
FirstThrow ==
    IF \E i \in 1..4 : localStorage[TableOrder[i]].kind = Corrupt
    THEN CHOOSE i \in 1..4 :
            /\ localStorage[TableOrder[i]].kind = Corrupt
            /\ \A j \in 1..(i-1) : localStorage[TableOrder[j]].kind # Corrupt
    ELSE 5

\* if (saved) setX(JSON.parse(saved)), skipped once an earlier parse has thrown
LocalLoaded(table) ==
    IF Index(table) < FirstThrow /\ localStorage[table].kind = "json"
    THEN JSONParse(table, localStorage[table])
    ELSE Collection(table)

\* a save effect that writes whatever the loading flag says (sensitivity of C28)
SaveAllowed_Always(loading) == TRUE

\* if (typeof window !== 'undefined' && !isLoading): a save effect that runs
\* writes only when the isLoading of its render is false
SaveAllowed(loading) == ~loading

\* a save effect runs at a commit when one of its dependencies changed
SaveDue(table) ==
    /\ impl = "local"
    /\ SaveAllowed(isLoading)
    /\ (Collection(table) # view[table] \/ isLoading # view.isLoading)

(***************************************************************************)
(* Mount effects                                                           *)
(***************************************************************************)
\* fetchData up to its first await: setIsLoading(true), select from students
StartFetch(call) ==
    /\ isLoading' = TRUE
    /\ inflight' = inflight \cup
          {Request(call, "fetchData", "select", "students", Undefined,
                   NoArg, NoTx, <<>>, students)}

\* remote: useEffect(() => { fetchData(); }, [])
MountRemote ==
    /\ impl = "remote"
    /\ ~mounted
    /\ mounted' = TRUE
    /\ StartFetch(0)
    /\ last' = Step("mount", 0, TRUE, NoArg)
    /\ UNCHANGED <<impl, mem, view, kpis, durable, ncalls, uncaught>>

\* local: the effects of the first commit. The load effect (synchronous):
\* parse in order, finally isLoading false; then the four save effects, which
\* run with the values of the first render
MountLocal ==
    /\ impl = "local"
    /\ ~mounted
    /\ mounted' = TRUE
    /\ students'     = LocalLoaded("students")
    /\ transactions' = LocalLoaded("transactions")
    /\ events'       = LocalLoaded("events")
    /\ employees'    = LocalLoaded("employees")
    /\ isLoading' = FALSE
    /\ localStorage' =
          [t \in TableSet |->
              IF SaveAllowed(view.isLoading)
              THEN Saved(t, view[t]) ELSE localStorage[t]]
    /\ last' = Step("mount", 0, FirstThrow = 5, NoArg)
    /\ UNCHANGED <<impl, view, kpis, db, inflight, ncalls, uncaught>>

(***************************************************************************)
(* Render: commit of the queued state, useMemo, and (local) the save       *)
(* effects. `failing` is the first save effect whose setItem throws        *)
(* (5: none); the effects after it in the same commit do not run.          *)
(***************************************************************************)
\* Render with the kpis memo one commit behind its collections, as with a
\* dependency array that misses them (sensitivity of C12)
Render_StaleKpis(failing) ==
    /\ ~uncaught
    /\ Snapshot # view
    /\ view' = Snapshot
    /\ kpis' = ComputeKpis(view.students, view.transactions)
    /\ failing \in 1..4 => SaveDue(TableOrder[failing])
    /\ localStorage' =
          [t \in TableSet |->
              IF SaveDue(t) /\ Index(t) < failing
              THEN Saved(t, Collection(t)) ELSE localStorage[t]]
    /\ uncaught' = (failing \in 1..4)
    /\ last' = Step("render", 0, failing = 5, NoArg)
    /\ UNCHANGED <<impl, mem, isLoading, db, inflight, ncalls, mounted>>

Render(failing) ==
    /\ ~uncaught
    /\ Snapshot # view
    /\ view' = Snapshot
    /\ kpis' = ComputeKpis(students, transactions)
    /\ failing \in 1..4 => SaveDue(TableOrder[failing])
    /\ localStorage' =
          [t \in TableSet |->
              IF SaveDue(t) /\ Index(t) < failing
              THEN Saved(t, Collection(t)) ELSE localStorage[t]]
    /\ uncaught' = (failing \in 1..4)
    /\ last' = Step("render", 0, failing = 5, NoArg)
    /\ UNCHANGED <<impl, mem, isLoading, db, inflight, ncalls, mounted>>

(***************************************************************************)
(* Local store: actions (src/contexts/SchoolDataContext.tsx)               *)
(***************************************************************************)
LocalCall(op, arg) ==
    /\ impl = "local"
    /\ CanCall
    /\ ncalls' = ncalls + 1
    /\ last' = Step(op, ncalls + 1, TRUE, arg)
    /\ UNCHANGED <<impl, isLoading, view, kpis, durable, inflight, mounted,
                   uncaught>>

L_addStudent(s) ==
    /\ LocalCall("addStudent", s)
    /\ students' = <<s>> \o students
    /\ UNCHANGED <<transactions, events, employees>>

\* updateStudent as a partial patch that takes only the name of its argument
\* (sensitivity of C14)
L_updateStudent_Patch(s) ==
    /\ LocalCall("updateStudent", s)
    /\ students' = [i \in 1..Len(students) |->
                       IF students[i].id = s.id
                       THEN [students[i] EXCEPT !.name = s.name]
                       ELSE students[i]]
    /\ UNCHANGED <<transactions, events, employees>>

L_updateStudent(s) ==
    /\ LocalCall("updateStudent", s)
    /\ students' = ReplaceById(students, s)
    /\ UNCHANGED <<transactions, events, employees>>

\* setStudents(prevStudents => prevStudents.map(...)) under the condition
LocalReconcile(prevStudents, t) ==
    IF ReconcileCondition(t)
    THEN [i \in 1..Len(prevStudents) |->
             IF prevStudents[i].id = t.studentId
             THEN Reconciled(prevStudents[i], t) ELSE prevStudents[i]]
    ELSE prevStudents

L_addTransaction(t) ==
    /\ LocalCall("addTransaction", t)
    /\ transactions' = <<t>> \o transactions
    /\ students' = LocalReconcile(students, t)
    /\ UNCHANGED <<events, employees>>

L_addEvent(e) ==
    /\ LocalCall("addEvent", e)
    /\ events' = events \o <<e>>
    /\ UNCHANGED <<students, transactions, employees>>

L_updateEvent(e) ==
    /\ LocalCall("updateEvent", e)
    /\ events' = ReplaceById(events, e)
    /\ UNCHANGED <<students, transactions, employees>>

\* deleteEvent by events.splice(events.findIndex(...), 1), which drops the last
\* event when no event has the id (sensitivity of C15)
L_deleteEvent_Splice(id) ==
    /\ LocalCall("deleteEvent", [id |-> id])
    /\ events' = IF id \in Ids(events) THEN RemoveById(events, id)
                 ELSE SubSeq(events, 1, Len(events) - 1)
    /\ UNCHANGED <<students, transactions, employees>>

L_deleteEvent(id) ==
    /\ LocalCall("deleteEvent", [id |-> id])
    /\ events' = RemoveById(events, id)
    /\ UNCHANGED <<students, transactions, employees>>

L_addEmployee(e) ==
    /\ LocalCall("addEmployee", e)
    /\ employees' = <<e>> \o employees
    /\ UNCHANGED <<students, transactions, events>>

\* "No-op for LocalStorage, data is always fresh in state"
L_refreshData ==
    /\ LocalCall("refreshData", NoArg)
    /\ UNCHANGED mem

(***************************************************************************)
(* Remote store: actions up to their first await (src/unnamed/part_000)    *)
(***************************************************************************)
RemoteCall(op, arg) ==
    /\ impl = "remote"
    /\ CanCall
    /\ ncalls' = ncalls + 1
    /\ last' = Step(op, ncalls + 1, TRUE, arg)
    /\ UNCHANGED <<impl, view, kpis, durable, mounted, uncaught>>

\* a mutation that sets its collection and awaits one write
RemoteWrite(k, op, table, id, cols) ==
    /\ inflight' = inflight \cup
          {Request(ncalls + 1, k, op, table, id, cols, NoTx, <<>>, <<>>)}
    /\ UNCHANGED isLoading

\* .update({...}) names every column but id
WithoutId(row) == [f \in DOMAIN row \ {"id"} |-> row[f]]

R_addStudent(s) ==
    /\ RemoteCall("addStudent", s)
    /\ students' = <<s>> \o students
    /\ RemoteWrite("addStudent", "insert", "students", s.id, StudentToRow(s))
    /\ UNCHANGED <<transactions, events, employees>>

\* updateStudent that filters the old record out and does not put the new one
\* back (sensitivity of C16)
R_updateStudent_Drop(s) ==
    /\ RemoteCall("updateStudent", s)
    /\ students' = RemoveById(students, s.id)
    /\ RemoteWrite("updateStudent", "update", "students", s.id,
                   WithoutId(StudentToRow(s)))
    /\ UNCHANGED <<transactions, events, employees>>

R_updateStudent(s) ==
    /\ RemoteCall("updateStudent", s)
    /\ students' = ReplaceById(students, s)
    /\ RemoteWrite("updateStudent", "update", "students", s.id,
                   WithoutId(StudentToRow(s)))
    /\ UNCHANGED <<transactions, events, employees>>

\* the handler closes over the students array of the render that created it
R_addTransaction(t) ==
    /\ RemoteCall("addTransaction", t)
    /\ transactions' = <<t>> \o transactions
    /\ inflight' = inflight \cup
          {Request(ncalls + 1, "addTransaction", "insert", "transactions", t.id,
                   TransactionToRow(t), t, view.students, students)}
    /\ UNCHANGED <<students, events, employees, isLoading>>

\* addEvent putting the new event first, like the other collections
\* (sensitivity of C13)
R_addEvent_Prepend(e) ==
    /\ RemoteCall("addEvent", e)
    /\ events' = <<e>> \o events
    /\ RemoteWrite("addEvent", "insert", "events", e.id, EventToRow(e))
    /\ UNCHANGED <<students, transactions, employees>>

R_addEvent(e) ==
    /\ RemoteCall("addEvent", e)
    /\ events' = events \o <<e>>
    /\ RemoteWrite("addEvent", "insert", "events", e.id, EventToRow(e))
    /\ UNCHANGED <<students, transactions, employees>>

R_updateEvent(e) ==
    /\ RemoteCall("updateEvent", e)
    /\ events' = ReplaceById(events, e)
    /\ RemoteWrite("updateEvent", "update", "events", e.id,
                   WithoutId(EventToRow(e)))
    /\ UNCHANGED <<students, transactions, employees>>

R_deleteEvent(id) ==
    /\ RemoteCall("deleteEvent", [id |-> id])
    /\ events' = RemoveById(events, id)
    /\ RemoteWrite("deleteEvent", "delete", "events", id, NoArg)
    /\ UNCHANGED <<students, transactions, employees>>

R_addEmployee(e) ==
    /\ RemoteCall("addEmployee", e)
    /\ employees' = <<e>> \o employees
    /\ RemoteWrite("addEmployee", "insert", "employees", e.id, EmployeeToRow(e))
    /\ UNCHANGED <<students, transactions, events>>

\* refreshData: fetchData
R_refreshData ==
    /\ RemoteCall("refreshData", NoArg)
    /\ StartFetch(ncalls + 1)
    /\ UNCHANGED mem

(***************************************************************************)
(* Remote store: an awaited adapter call returns (ok: without an error)    *)
(* and the handler runs on to its next await or to its end                 *)
(***************************************************************************)
Returns(req, ok) ==
    /\ impl = "remote"
    /\ ~uncaught
    /\ req \in inflight
    /\ ok => CanSucceed(req)
    /\ db' = IF ok THEN [db EXCEPT ![req.table] = Written(db[req.table], req)]
                   ELSE db
    /\ last' = Step("return", req.call, ok, req)
    /\ UNCHANGED <<impl, view, kpis, localStorage, ncalls, mounted, uncaught>>

\* fetchData with setIsLoading(false) at the end of the try block instead of in
\* a finally block (sensitivity of C8)
R_fetchDataReturn_NoFinally(req, ok, data) ==
    /\ req.k = "fetchData"
    /\ Returns(req, ok)
    /\ data \in SelectResults(req.table)
    /\ IF ok
       THEN /\ SetCollection(req.table, FromRows(req.table, data))
            /\ IF NextTable(req.table) = "none"
               THEN /\ isLoading' = FALSE
                    /\ inflight' = inflight \ {req}
               ELSE /\ isLoading' = isLoading
                    /\ inflight' = (inflight \ {req}) \cup
                          {[req EXCEPT !.table = NextTable(req.table)]}
       ELSE /\ UNCHANGED mem
            /\ isLoading' = isLoading
            /\ inflight' = inflight \ {req}

\* fetchData adding the fetched rows to the collection instead of replacing
\* it, setX(prev => [...mapped, ...prev]) (sensitivity of C30)
R_fetchDataReturn_Merge(req, ok, data) ==
    /\ req.k = "fetchData"
    /\ Returns(req, ok)
    /\ data \in SelectResults(req.table)
    /\ IF ok
       THEN /\ SetCollection(req.table,
                             FromRows(req.table, data) \o Collection(req.table))
            /\ IF NextTable(req.table) = "none"
               THEN /\ isLoading' = FALSE
                    /\ inflight' = inflight \ {req}
               ELSE /\ isLoading' = isLoading
                    /\ inflight' = (inflight \ {req}) \cup
                          {[req EXCEPT !.table = NextTable(req.table)]}
       ELSE /\ UNCHANGED mem
            /\ isLoading' = FALSE
            /\ inflight' = inflight \ {req}

\* fetchData after one of its four selects: on an error the catch block logs
\* and nothing more is fetched; finally setIsLoading(false)
R_fetchDataReturn(req, ok, data) ==
    /\ req.k = "fetchData"
    /\ Returns(req, ok)
    /\ data \in SelectResults(req.table)
    /\ IF ok
       THEN /\ SetCollection(req.table, FromRows(req.table, data))
            /\ IF NextTable(req.table) = "none"
               THEN /\ isLoading' = FALSE
                    /\ inflight' = inflight \ {req}
               ELSE /\ isLoading' = isLoading
                    /\ inflight' = (inflight \ {req}) \cup
                          {[req EXCEPT !.table = NextTable(req.table)]}
       ELSE /\ UNCHANGED mem
            /\ isLoading' = FALSE
            /\ inflight' = inflight \ {req}

\* addTransaction after the insert: the error is logged, then reconciliation
\* against the students array the handler closed over
R_addTransactionReturn(req, ok) ==
    /\ req.k = "addTransaction"
    /\ Returns(req, ok)
    /\ LET t == req.t
           studentToUpdate == Find(req.closure, t.studentId)
           updatedStudent  == Reconciled(studentToUpdate, t)
       IN  IF ReconcileCondition(t) /\ studentToUpdate # NoStudent
           THEN /\ students' = [i \in 1..Len(students) |->
                                   IF students[i].id = t.studentId
                                   THEN updatedStudent ELSE students[i]]
                /\ inflight' = (inflight \ {req}) \cup
                      {[Request(req.call, "reconcile", "update", "students",
                                t.studentId,
                                [paid_months |-> updatedStudent.paidMonths,
                                 financial_status |-> updatedStudent.financialStatus],
                                t, req.closure, req.atCall)
                          EXCEPT !.others = req.others]}
           ELSE /\ students' = students
                /\ inflight' = inflight \ {req}
    /\ UNCHANGED <<transactions, events, employees, isLoading>>

\* every other awaited write: its error is logged (or ignored), the handler ends
R_writeReturn(req, ok) ==
    /\ req.k \notin {"fetchData", "addTransaction"}
    /\ Returns(req, ok)
    /\ inflight' = inflight \ {req}
    /\ UNCHANGED <<mem, isLoading>>

(***************************************************************************)
(* Inputs: the entities the callers hand to the store, and stored data     *)
(***************************************************************************)
Student(id, name, paidMonths, financialStatus) ==
    [id |-> id, name |-> name, paidMonths |-> paidMonths,
     financialStatus |-> financialStatus]

Transaction(id, date, amount, type, status, studentId, paidMonths) ==
    [id |-> id, date |-> date, amount |-> amount, type |-> type,
     status |-> status, studentId |-> studentId, paidMonths |-> paidMonths]

CalendarEvent(id, title, start, end) ==
    [id |-> id, title |-> title, start |-> start, end |-> end]

Employee(id, name, base) ==
    [id |-> id, name |-> name, salary |-> [base |-> base, currency |-> "MZN"]]

StudentIds  == {"s1", "s2", "s3", "s4", "s5", "s6"}
UnknownId   == "s9"
UnknownEventId == "e9"
TxIds       == {"t1", "t2", "t3", "t4", "t5", "t6"}
EventIds    == {"e1", "e2", "e3", "e4", "e5", "e6"}
EmployeeIds == {"p1", "p2", "p3", "p4", "p5", "p6"}

\* ids in use anywhere: the Math.random id of a new entity collides with none
UsedIds(table) ==
    Ids(Collection(table)) \cup Ids(view[table]) \cup Ids(db[table])
      \cup Ids(localStorage[table].json)
      \cup {r.id : r \in {q \in inflight : q.table = table}}

\* ids are opaque: one fresh id stands for every id a caller could generate
HasFreshId(table, ids) == \E id \in ids : id \notin UsedIds(table)
FreshId(table, ids) ==
    IF HasFreshId(table, ids)
    THEN CHOOSE id \in ids : id \notin UsedIds(table) ELSE Undefined

\* the ids of the entities in memory or on screen
KnownIds(table) == Ids(Collection(table)) \cup Ids(view[table])

\* addStudent: the form's new student (pending, nothing paid), and a record
\* whose financialStatus disagrees with its paidMonths
NewStudents ==
    {Student(FreshId("students", StudentIds), "a", <<>>, "pending"),
     Student(FreshId("students", StudentIds), "a", <<"Fev">>, "paid")}

\* addStudent: a record that claims to be paid with nothing paid
MisstatedStudents ==
    {Student(FreshId("students", StudentIds), "a", <<>>, "paid")}

\* updateStudent: an edited copy of a student in memory or on screen
EditedStudents ==
    {Student(id, "b", <<"Abr">>, "paid") : id \in KnownIds("students")}

\* addTransaction: payments of periods by a student in memory or on screen or
\* by an unknown student, and an expense that names a student and periods
LinkedTransactions ==
    {Transaction(FreshId("transactions", TxIds), 1, 500, "income", "completed",
                 sid, pm) :
        sid \in KnownIds("students") \cup {UnknownId},
        pm \in {<<"Fev">>, <<"Mar", "Fev">>}}
    \cup
    {Transaction(FreshId("transactions", TxIds), 1, 200, "expense", "completed",
                 sid, <<"Mar", "Fev">>) : sid \in KnownIds("students")}

\* addTransaction without a student: every type and status
PlainTransactions ==
    {Transaction(FreshId("transactions", TxIds), 2,
                 IF type = "income" THEN 500 ELSE 200,
                 type, status, Undefined, <<>>) :
        type \in {"income", "expense"},
        status \in {"completed", "pending", "cancelled"}}

NewEvents == {CalendarEvent(FreshId("events", EventIds), "x", 1, 2)}

EditedEvents == {CalendarEvent(id, "y", 2, 3) : id \in KnownIds("events")}

NewEmployees == {Employee(FreshId("employees", EmployeeIds), "n", 100)}

\* updateStudent / updateEvent of an entity in memory or on screen, or of an
\* id no entity has
UpdatedStudents == EditedStudents \cup {Student(UnknownId, "b", <<"Abr">>, "paid")}
UpdatedEvents   == EditedEvents \cup {CalendarEvent(UnknownEventId, "y", 2, 3)}

\* deleteEvent of an event in memory or on screen, or of an id no event has
DeletedEventIds == KnownIds("events") \cup {UnknownEventId}

\* add calls whose id is not in the in-memory collection but may be the id of
\* a stored entity that has not been loaded: the first of ids the collection
\* does not hold
FirstAbsent(ids, coll) ==
    {ids[i] : i \in {j \in 1..Len(ids) :
                        /\ ids[j] \notin Ids(coll)
                        /\ \A k \in 1..(j-1) : ids[k] \in Ids(coll)}}

UnloadedStudents ==
    {Student(id, "c", <<>>, "pending") :
        id \in FirstAbsent(<<"s1", "s2">>, students)}

UnloadedTransactions ==
    {Transaction(id, 2, 500, "income", "completed", "s1", <<"Mar", "Fev">>) :
        id \in FirstAbsent(<<"t1", "t2">>, transactions)}

UnloadedEvents ==
    {CalendarEvent(id, "z", 1, 2) : id \in FirstAbsent(<<"e1", "e2">>, events)}

UnloadedEmployees ==
    {Employee(id, "m", 100) : id \in FirstAbsent(<<"p1", "p2">>, employees)}

\* stored data at start-up
SeedStudent  == Student("s1", "a", <<"Fev">>, "late")
SeedTx       == Transaction("t1", 1, 500, "income", "completed", "s1", <<"Fev">>)
SeedEvent    == CalendarEvent("e1", "x", 1, 2)
SeedEmployee == Employee("p1", "n", 100)

SeedCollections ==
    [students |-> <<SeedStudent>>, transactions |-> <<SeedTx>>,
     events |-> <<SeedEvent>>, employees |-> <<SeedEmployee>>]

RowsOf(colls) ==
    [t \in TableSet |-> [i \in 1..Len(colls[t]) |-> ToRow(t, colls[t][i])]]

ItemsOf(colls) == [t \in TableSet |-> Saved(t, colls[t])]

NoItems == [t \in TableSet |-> NoItem]

InitialDbs == {EmptyTables, RowsOf(SeedCollections)}

\* nothing stored yet, a full store, or a full store with one unreadable key
InitialStorages ==
    {NoItems, ItemsOf(SeedCollections)}
      \cup {[ItemsOf(SeedCollections) EXCEPT ![t] = CorruptItem] : t \in TableSet}

Init ==
    \/ \E rows \in InitialDbs : InitWith("remote", rows, NoItems)
    \/ \E saved \in InitialStorages : InitWith("local", EmptyTables, saved)

\* the state once the initial load of `colls` has completed and rendered
LoadedWith(i, colls) ==
    /\ impl = i
    /\ students = colls.students
    /\ transactions = colls.transactions
    /\ events = colls.events
    /\ employees = colls.employees
    /\ isLoading = FALSE
    /\ view = [students |-> colls.students, transactions |-> colls.transactions,
               events |-> colls.events, employees |-> colls.employees,
               isLoading |-> FALSE]
    /\ kpis = ComputeKpis(colls.students, colls.transactions)
    /\ db = IF i = "remote" THEN RowsOf(colls) ELSE EmptyTables
    /\ localStorage = IF i = "local" THEN ItemsOf(colls) ELSE NoItems
    /\ inflight = {}
    /\ ncalls = 0
    /\ mounted = TRUE
    /\ uncaught = FALSE

InitLoaded ==
    \E i \in Impls, colls \in {EmptyTables, SeedCollections} :
        /\ LoadedWith(i, colls)
        /\ last = Step("render", 0, TRUE, NoArg)

(***************************************************************************)
(* Spec: every operation of both stores from construction, with load and   *)
(* write failures, on one entity of each kind per call                     *)
(***************************************************************************)
Next ==
    \/ MountLocal
    \/ MountRemote
    \/ \E failing \in 1..5 : Render(failing)
    \/ L_addStudent(Student(FreshId("students", StudentIds), "a", <<>>, "pending"))
    \/ \E s \in EditedStudents : L_updateStudent(s)
    \/ L_addTransaction(Transaction(FreshId("transactions", TxIds), 2, 500,
                            "income", "completed", "s1", <<"Mar", "Fev">>))
    \/ \E e \in NewEvents : L_addEvent(e)
    \/ \E e \in EditedEvents : L_updateEvent(e)
    \/ \E id \in KnownIds("events") : L_deleteEvent(id)
    \/ \E e \in NewEmployees : L_addEmployee(e)
    \/ L_refreshData
    \/ R_addStudent(Student(FreshId("students", StudentIds), "a", <<>>, "pending"))
    \/ \E s \in EditedStudents : R_updateStudent(s)
    \/ R_addTransaction(Transaction(FreshId("transactions", TxIds), 2, 500,
                            "income", "completed", "s1", <<"Mar", "Fev">>))
    \/ \E e \in NewEvents : R_addEvent(e)
    \/ \E e \in EditedEvents : R_updateEvent(e)
    \/ \E id \in KnownIds("events") : R_deleteEvent(id)
    \/ \E e \in NewEmployees : R_addEmployee(e)
    \/ R_refreshData
    \/ \E req \in inflight, ok \in BOOLEAN :
          \E data \in SelectResults(req.table) : R_fetchDataReturn(req, ok, data)
    \/ \E req \in inflight, ok \in BOOLEAN : R_addTransactionReturn(req, ok)
    \/ \E req \in inflight, ok \in BOOLEAN : R_writeReturn(req, ok)

Spec == Init /\ [][Next]_vars

(***************************************************************************)
(* SpecStudents: the student and transaction operations of both stores     *)
(* once the initial load has completed, without adapter failures           *)
(***************************************************************************)
NextStudents ==
    \/ Render(5)
    \/ \E s \in NewStudents \cup MisstatedStudents : L_addStudent(s)
    \/ \E s \in EditedStudents : L_updateStudent(s)
    \/ \E t \in LinkedTransactions : L_addTransaction(t)
    \/ \E s \in NewStudents \cup MisstatedStudents : R_addStudent(s)
    \/ \E s \in EditedStudents : R_updateStudent(s)
    \/ \E t \in LinkedTransactions : R_addTransaction(t)
    \/ \E req \in inflight : R_addTransactionReturn(req, TRUE)
    \/ \E req \in inflight : R_writeReturn(req, TRUE)

SpecStudents == InitLoaded /\ [][NextStudents]_vars

(***************************************************************************)
(* SpecWrites: every mutation of both stores once the initial load has     *)
(* completed, each adapter write succeeding or failing                     *)
(***************************************************************************)
NextWrites ==
    \/ \E failing \in 1..5 : Render(failing)
    \/ L_addStudent(Student(FreshId("students", StudentIds), "a", <<>>, "pending"))
    \/ \E s \in UpdatedStudents : L_updateStudent(s)
    \/ L_addTransaction(Transaction(FreshId("transactions", TxIds), 2, 500,
                            "income", "completed", "s1", <<"Mar", "Fev">>))
    \/ \E e \in NewEvents : L_addEvent(e)
    \/ \E e \in UpdatedEvents : L_updateEvent(e)
    \/ \E id \in DeletedEventIds : L_deleteEvent(id)
    \/ \E e \in NewEmployees : L_addEmployee(e)
    \/ R_addStudent(Student(FreshId("students", StudentIds), "a", <<>>, "pending"))
    \/ \E s \in UpdatedStudents : R_updateStudent(s)
    \/ R_addTransaction(Transaction(FreshId("transactions", TxIds), 2, 500,
                            "income", "completed", "s1", <<"Mar", "Fev">>))
    \/ \E e \in NewEvents : R_addEvent(e)
    \/ \E e \in UpdatedEvents : R_updateEvent(e)
    \/ \E id \in DeletedEventIds : R_deleteEvent(id)
    \/ \E e \in NewEmployees : R_addEmployee(e)
    \/ \E req \in inflight, ok \in BOOLEAN : R_addTransactionReturn(req, ok)
    \/ \E req \in inflight, ok \in BOOLEAN : R_writeReturn(req, ok)

SpecWrites == InitLoaded /\ [][NextWrites]_vars

(***************************************************************************)
(* SpecLoad: the initial load and refresh of both stores, each select      *)
(* succeeding or failing, with students added and periods paid meanwhile   *)
(***************************************************************************)
NextLoad ==
    \/ MountLocal
    \/ MountRemote
    \/ Render(5)
    \/ L_refreshData
    \/ R_refreshData
    \/ L_addStudent(Student(FreshId("students", StudentIds), "a", <<>>, "pending"))
    \/ R_addStudent(Student(FreshId("students", StudentIds), "a", <<>>, "pending"))
    \/ \E sid \in KnownIds("students") :
          L_addTransaction(Transaction(FreshId("transactions", TxIds), 2, 500,
                               "income", "completed", sid, <<"Mar", "Fev">>))
    \/ \E sid \in KnownIds("students") :
          R_addTransaction(Transaction(FreshId("transactions", TxIds), 2, 500,
                               "income", "completed", sid, <<"Mar", "Fev">>))
    \/ \E req \in inflight, ok \in BOOLEAN :
          \E data \in SelectResults(req.table) : R_fetchDataReturn(req, ok, data)
    \/ \E req \in inflight : R_addTransactionReturn(req, TRUE)
    \/ \E req \in inflight : R_writeReturn(req, TRUE)

SpecLoad == Init /\ [][NextLoad]_vars

(***************************************************************************)
(* SpecRefresh: the initial load and refresh of both stores, each select   *)
(* succeeding or failing, with students added meanwhile                    *)
(***************************************************************************)
FetchReturns ==
    \E req \in inflight, ok \in BOOLEAN :
        \E data \in SelectResults(req.table) : R_fetchDataReturn(req, ok, data)

WriteReturns == \E req \in inflight, ok \in BOOLEAN : R_writeReturn(req, ok)

NextRefresh ==
    \/ MountLocal
    \/ MountRemote
    \/ Render(5)
    \/ L_refreshData
    \/ R_refreshData
    \/ L_addStudent(Student(FreshId("students", StudentIds), "a", <<>>, "pending"))
    \/ R_addStudent(Student(FreshId("students", StudentIds), "a", <<>>, "pending"))
    \/ FetchReturns
    \/ WriteReturns

SpecRefresh == Init /\ [][NextRefresh]_vars

(***************************************************************************)
(* SpecLoading: the loads alone. SpecLoadingFair adds what the scheduling  *)
(* guarantees: the mount effects and renders run, and every adapter call   *)
(* eventually returns.                                                     *)
(***************************************************************************)
NextLoading ==
    \/ MountLocal
    \/ MountRemote
    \/ Render(5)
    \/ L_refreshData
    \/ R_refreshData
    \/ FetchReturns

SpecLoading == Init /\ [][NextLoading]_vars

SpecLoadingFair ==
    /\ SpecLoading
    /\ WF_vars(MountLocal)
    /\ WF_vars(MountRemote)
    /\ WF_vars(Render(5))
    /\ WF_vars(FetchReturns)

(***************************************************************************)
(* SpecKpi: students and transactions of every type and status added to    *)
(* both stores once the initial load has completed                         *)
(***************************************************************************)
NextKpi ==
    \/ Render(5)
    \/ \E s \in NewStudents : L_addStudent(s)
    \/ \E t \in PlainTransactions : L_addTransaction(t)
    \/ \E s \in NewStudents : R_addStudent(s)
    \/ \E t \in PlainTransactions : R_addTransaction(t)
    \/ \E req \in inflight : R_addTransactionReturn(req, TRUE)
    \/ \E req \in inflight : R_writeReturn(req, TRUE)

SpecKpi == InitLoaded /\ [][NextKpi]_vars

(***************************************************************************)
(* SpecLocal: the local store from construction: the load of every stored  *)
(* content, every mutation, and each save succeeding or throwing           *)
(***************************************************************************)
InitLocal == \E saved \in InitialStorages : InitWith("local", EmptyTables, saved)

NextLocal ==
    \/ MountLocal
    \/ \E failing \in 1..5 : Render(failing)
    \/ \E s \in NewStudents : L_addStudent(s)
    \/ \E s \in UpdatedStudents : L_updateStudent(s)
    \/ \E t \in LinkedTransactions : L_addTransaction(t)
    \/ \E e \in NewEvents : L_addEvent(e)
    \/ \E e \in UpdatedEvents : L_updateEvent(e)
    \/ \E id \in DeletedEventIds : L_deleteEvent(id)
    \/ \E e \in NewEmployees : L_addEmployee(e)
    \/ L_refreshData

SpecLocal == InitLocal /\ [][NextLocal]_vars

(***************************************************************************)
(* SpecIds: both stores from construction over stored data with distinct   *)
(* ids: loads, refreshes and mutations, the adds supplying an id their     *)
(* collection does not hold. The backend answers every call and refuses    *)
(* only an insert whose key exists.                                        *)
(***************************************************************************)
InitStored ==
    \/ InitWith("remote", RowsOf(SeedCollections), NoItems)
    \/ InitWith("local", EmptyTables, ItemsOf(SeedCollections))

NextIds ==
    \/ MountLocal
    \/ MountRemote
    \/ Render(5)
    \/ L_refreshData
    \/ R_refreshData
    \/ \E s \in UnloadedStudents : L_addStudent(s)
    \/ \E s \in EditedStudents : L_updateStudent(s)
    \/ \E t \in UnloadedTransactions : L_addTransaction(t)
    \/ \E e \in UnloadedEvents : L_addEvent(e)
    \/ \E e \in UnloadedEmployees : L_addEmployee(e)
    \/ \E s \in UnloadedStudents : R_addStudent(s)
    \/ \E t \in UnloadedTransactions : R_addTransaction(t)
    \/ \E req \in inflight :
          \E data \in SelectResults(req.table) : R_fetchDataReturn(req, TRUE, data)
    \/ \E req \in inflight : R_addTransactionReturn(req, CanSucceed(req))
    \/ \E req \in inflight : R_writeReturn(req, CanSucceed(req))

SpecIds == InitStored /\ [][NextIds]_vars

(***************************************************************************)
(* Properties                                                              *)
(***************************************************************************)
\* the step just taken is the last one of its store operation
Completes == \A r \in inflight : r.call # last.call

\* C1: in every reachable state every student of the students collection has
\* financialStatus = Classify(paidMonths)
C1_StatusIsClassified ==
    \A i \in 1..Len(students) :
        students[i].financialStatus
            = getStudentFinancialStatus(students[i].paidMonths)

C2_Premise(t, before) ==
    /\ t.type = "income"
    /\ ReconcileCondition(t)
    /\ t.studentId \in Ids(before)

C2_Post(t, before, after) ==
    /\ Len(after) = Len(before)
    /\ \A i \in 1..Len(before) :
          before[i].id = t.studentId =>
             /\ after[i].id = t.studentId
             /\ Range(after[i].paidMonths)
                   = Range(before[i].paidMonths) \cup Range(t.paidMonths)
             /\ Len(after[i].paidMonths)
                   = Cardinality(Range(after[i].paidMonths))
             /\ after[i].financialStatus
                   = getStudentFinancialStatus(after[i].paidMonths)

\* C2: addTransaction with type income, periods and the id of a student that is
\* in the students collection at the moment of the call leaves, once it has
\* completed (no load and no other addTransaction overlapping it), that student
\* at its position with paidMonths the duplicate-free union of its previous
\* periods and the transaction's, and financialStatus the Classify of it
C2_ReconciliationMergesPeriods ==
    [][ /\ ( /\ impl = "local"
             /\ last'.op = "addTransaction"
             /\ C2_Premise(last'.arg, students) )
           => C2_Post(last'.arg, students, students')
        /\ ( /\ impl = "remote"
             /\ last'.op = "return"
             /\ last'.arg.k \in {"addTransaction", "reconcile"}
             /\ Completes'
             /\ last'.call = ncalls'
             /\ last'.arg.others \cap {"addTransaction", "fetchData"} = {}
             /\ C2_Premise(last'.arg.t, last'.arg.atCall) )
           => C2_Post(last'.arg.t, last'.arg.atCall, students')
      ]_vars

\* a step of an addTransaction whose transaction satisfies P
AddTransactionStep(P(_)) ==
    \/ last.op = "addTransaction" /\ P(last.arg)
    \/ /\ last.op = "return"
       /\ last.arg.k \in {"addTransaction", "reconcile"}
       /\ P(last.arg.t)

IsExpense(t) == t.type = "expense"

\* C3: no step of an addTransaction with type = expense changes the students
\* collection, whatever studentId and paidMonths the transaction carries
C3_ExpenseLeavesStudents ==
    [][ AddTransactionStep(IsExpense)' => students' = students ]_vars

\* C4: addTransaction with a studentId that matches no student in the store at
\* the moment of the call puts the transaction in the transactions collection,
\* leaves students unchanged, issues no student write and raises no error
C4_UnknownStudentSkipped ==
    [][ /\ ( /\ last'.op = "addTransaction"
             /\ last'.arg.studentId \notin Ids(students) )
           => /\ transactions' = <<last'.arg>> \o transactions
              /\ students' = students
              /\ uncaught' = uncaught
        /\ ( /\ last'.op = "return"
             /\ last'.arg.k = "addTransaction"
             /\ last'.arg.t.studentId \notin Ids(last'.arg.atCall) )
           => /\ students' = students
              /\ \A r \in inflight' \ inflight : r.table # "students"
              /\ uncaught' = uncaught
      ]_vars

\* C6: every in-memory change of a mutation is made before the mutation first
\* awaits the adapter: the return of an awaited write changes no collection
C6_MemoryBeforeAwait ==
    [][ (last'.op = "return" /\ last'.arg.k # "fetchData") => mem' = mem ]_vars

\* a failed write of a mutation leaves the mutation's effect in memory
NotReverted ==
    \/ mem' = mem
    \/ /\ last'.op = "return"
       /\ last'.arg.k = "addTransaction"
       /\ <<transactions, events, employees>>' = <<transactions, events, employees>>
       /\ Ids(students') = Ids(students)

\* C5: when the persistence write of a mutation fails (the awaited adapter call
\* returns an error, or setItem throws in a save effect) the collections keep
\* the mutation's effect and no exception leaves the store, so that later
\* mutations are still applied
C5_WriteFailureAbsorbed ==
    [][ ( /\ last'.op \in {"return", "render"}
          /\ ~last'.ok
          /\ last'.op = "return" => last'.arg.k # "fetchData" )
           => NotReverted /\ ~uncaught'
      ]_vars

\* what the persistence adapter holds for a collection
StoredLocal(table) ==
    IF localStorage[table].kind = "json"
    THEN JSONParse(table, localStorage[table]) ELSE <<>>

StoredRemote(table) == {FromRows(table, d) : d \in SelectResults(table)}

\* the step just taken ends a load that nothing else overlapped
LoadCompletes ==
    /\ last.op = "return"
    /\ last.arg.k = "fetchData"
    /\ Completes
    /\ last.call = ncalls
    /\ last.arg.others = {}

\* C7: when a full load ends, each collection whose own load failed is empty
\* and every other collection equals its stored content
C7_LoadFailurePerCollection ==
    [][ /\ (impl = "local" /\ last'.op = "mount")
           => \A table \in TableSet : Collection(table)' = StoredLocal(table)
        /\ (impl = "remote" /\ LoadCompletes')
           => \A table \in TableSet :
                 IF ~last'.ok /\ last'.arg.table = table
                 THEN Collection(table)' = <<>>
                 ELSE Collection(table)' \in StoredRemote(table)
      ]_vars

\* the step just taken ends a load attempt (the initial load or a refresh)
LoadAttemptEnds ==
    \/ impl = "local" /\ last.op = "mount"
    \/ last.op = "return" /\ last.arg.k = "fetchData" /\ Completes

\* C8: isLoading is true until the mount effect runs, the step that ends a load
\* attempt leaves it false whether the selects succeeded or failed, and
\* whenever it is true it eventually becomes false
C8_LoadingEventuallyFalse ==
    /\ [](~mounted => isLoading)
    /\ [][LoadAttemptEnds' => ~isLoading']_vars
    /\ [](isLoading => <>(~isLoading))

\* a load attempt has ended on a failed select and isLoading is false
C8_Witness ==
    /\ last.op = "return"
    /\ last.arg.k = "fetchData"
    /\ ~last.ok
    /\ Completes
    /\ ~isLoading

\* C9: when a refresh ends without an adapter failure and with no other
\* operation since it was called, each collection equals the content the
\* persistence adapter holds for it
C9_RefreshReloads ==
    [][ /\ ( /\ impl = "local"
             /\ last'.op = "refreshData"
             /\ \A table \in TableSet : localStorage[table].kind # Corrupt )
           => \A table \in TableSet : Collection(table)' = StoredLocal(table)'
        /\ ( /\ impl = "remote"
             /\ LoadCompletes'
             /\ last'.call > 0
             /\ last'.ok )
           => \A table \in TableSet : Collection(table)' \in StoredRemote(table)'
      ]_vars

\* the sum of amount over the first n transactions of txs that have the given
\* type and status completed
RECURSIVE CompletedSum(_, _, _)
CompletedSum(txs, type, n) ==
    IF n = 0 THEN 0
    ELSE CompletedSum(txs, type, n - 1)
           + (IF txs[n].type = type /\ txs[n].status = "completed"
              THEN txs[n].amount ELSE 0)

\* C10: in every rendered snapshot totalRevenue is the sum of amount over the
\* completed income transactions, totalExpenses the sum over the completed
\* expense transactions and netBalance their difference; pending and
\* cancelled transactions contribute to none of them
C10_KpiSums ==
    LET txs == view.transactions
    IN  /\ kpis.totalRevenue  = CompletedSum(txs, "income", Len(txs))
        /\ kpis.totalExpenses = CompletedSum(txs, "expense", Len(txs))
        /\ kpis.netBalance    = kpis.totalRevenue - kpis.totalExpenses

\* a rendered snapshot with a completed income, a completed expense and a
\* transaction that is not completed: the net balance is 500 - 200
C10_Witness ==
    /\ kpis.netBalance = 300
    /\ \E i \in 1..Len(view.transactions) :
          view.transactions[i].status # "completed"
    /\ \E i \in 1..Len(view.transactions) :
          /\ view.transactions[i].type = "expense"
          /\ view.transactions[i].status = "completed"

\* the number of students of sts that Classify(paidMonths) calls late
LateCount(sts) ==
    Cardinality({i \in 1..Len(sts) :
        ClassifyAt(sts[i].paidMonths, ACADEMIC_MONTHS, CurrentPeriodIndex) = "late"})

\* r tenths of a percent is 100 * late / total rounded to one decimal place:
\* r / 10 is within 0.05 of it
RoundsTo(r, late, total) ==
    LET d == r * total - 1000 * late
    IN  2 * (IF d < 0 THEN -d ELSE d) <= total

\* C11: in every rendered snapshot delinquencyRate is 0 when there are no
\* students, and otherwise 100 * (students whose Classify(paidMonths) is late)
\* / (students) rounded to one decimal place, whatever their stored
\* financialStatus; it lies in [0, 100]
C11_DelinquencyRate ==
    LET sts == view.students
    IN  /\ Len(sts) = 0 => kpis.delinquencyRate = 0
        /\ Len(sts) > 0 => RoundsTo(kpis.delinquencyRate, LateCount(sts), Len(sts))
        /\ kpis.delinquencyRate \in 0..1000

\* three rendered students, two of them late by their paidMonths and one of
\* those stored as paid: the rate is 66.7
C11_Witness ==
    /\ kpis.delinquencyRate = 667
    /\ \E i \in 1..Len(view.students) :
          /\ view.students[i].financialStatus = "paid"
          /\ getStudentFinancialStatus(view.students[i].paidMonths) = "late"

\* C12: in every rendered snapshot (what an observer of the provider sees) the
\* five KPI values are the aggregator applied to the students and transactions
\* of that same snapshot, and totalStudents is the number of its students
C12_KpisOfSameSnapshot ==
    /\ kpis = ComputeKpis(view.students, view.transactions)
    /\ kpis.totalStudents = Len(view.students)

\* a transaction has been added and rendered and a student added since: the
\* observer still sees the kpis with the collections they were computed from
C12_Witness ==
    /\ ncalls > 0
    /\ Len(students) > Len(view.students)
    /\ Len(view.transactions) >= 2
    /\ kpis.totalStudents = Len(view.students)
    /\ kpis.totalRevenue > 500

\* after is before with x in front, the others in their order
InsertedFirst(before, after, x) ==
    /\ Len(after) = Len(before) + 1
    /\ after[1] = x
    /\ \A i \in 1..Len(before) : after[i + 1] = before[i]

\* after is before with x at the end, the others in their order
InsertedLast(before, after, x) ==
    /\ Len(after) = Len(before) + 1
    /\ after[Len(after)] = x
    /\ \A i \in 1..Len(before) : after[i] = before[i]

\* C13: addStudent, addEmployee and addTransaction put the new entity at the
\* front of their collection and addEvent puts it at the end of events, the
\* existing entities keeping their relative order
C13_InsertionOrder ==
    [][ /\ last'.op = "addStudent"
           => InsertedFirst(students, students', last'.arg)
        /\ last'.op = "addEmployee"
           => InsertedFirst(employees, employees', last'.arg)
        /\ last'.op = "addTransaction"
           => InsertedFirst(transactions, transactions', last'.arg)
        /\ last'.op = "addEvent"
           => InsertedLast(events, events', last'.arg)
      ]_vars

\* an event has just been added after the stored one, in the remote store
C13_Witness ==
    /\ impl = "remote"
    /\ last.op = "addEvent"
    /\ Len(events) >= 2
    /\ events[Len(events)] = last.arg
    /\ events[1] # last.arg

\* after is before with every entity that has x's id replaced by x
Replaced(before, after, x) ==
    /\ Len(after) = Len(before)
    /\ \A i \in 1..Len(before) :
          after[i] = IF before[i].id = x.id THEN x ELSE before[i]
    /\ x.id \notin Ids(before) => after = before

\* C14: updateStudent and updateEvent replace the entity that has the
\* argument's id by the argument as a whole, keep the length of the collection
\* and every other entity in its place, and change nothing when no entity has
\* that id
C14_UpdateReplaces ==
    [][ /\ last'.op = "updateStudent"
           => Replaced(students, students', last'.arg)
        /\ last'.op = "updateEvent"
           => Replaced(events, events', last'.arg)
      ]_vars

\* one of two students has just been replaced by the argument of updateStudent
C14_Witness ==
    /\ last.op = "updateStudent"
    /\ Len(students) >= 2
    /\ \E i, j \in 1..Len(students) :
          /\ students[i] = last.arg
          /\ students[j].id # last.arg.id

\* an update of an id that no entity has was issued
C14_UnknownIdCase ==
    /\ last.op \in {"updateStudent", "updateEvent"}
    /\ last.arg.id \in {UnknownId, UnknownEventId}
    /\ Len(students) > 0

\* after is before without the entities that have the id, the others in order
Removed(before, after, id) ==
    /\ Ids(after) = Ids(before) \ {id}
    /\ Len(after) = Cardinality({i \in 1..Len(before) : before[i].id # id})
    /\ \A i, j \in 1..Len(after) :
          i < j => \E k, l \in 1..Len(before) :
                      k < l /\ before[k] = after[i] /\ before[l] = after[j]
    /\ id \notin Ids(before) => after = before

C15_TwiceCase ==
    Cardinality({r \in inflight : r.k = "deleteEvent" /\ r.id = "e1"}) = 2

\* C16: no step of a mutation takes an id out of students, transactions or
\* employees; an id leaves events only in a deleteEvent step
C16_NoRemoval ==
    [][ /\ Ids(students) \subseteq Ids(students')
        /\ Ids(transactions) \subseteq Ids(transactions')
        /\ Ids(employees) \subseteq Ids(employees')
        /\ ~(Ids(events) \subseteq Ids(events')) => last'.op = "deleteEvent"
      ]_vars

\* the only event has just been deleted after a student was updated; the
\* student, the transaction and the employee are still there
C16_Witness ==
    /\ last.op = "deleteEvent"
    /\ events = <<>>
    /\ last.arg.id \in Ids(view.events)
    /\ \E i \in 1..Len(students) : students[i].name = "b"
    /\ transactions # <<>>
    /\ employees # <<>>

\* the step just taken ends a remote addTransaction that no load and no other
\* addTransaction overlapped and that no later call followed
RemoteTransactionCompletes ==
    /\ impl = "remote"
    /\ last.op = "return"
    /\ last.arg.k \in {"addTransaction", "reconcile"}
    /\ Completes
    /\ last.call = ncalls
    /\ last.arg.others \cap {"addTransaction", "fetchData"} = {}

\* C17: the two stores are interchangeable: with no persistence failure a
\* completed addTransaction of the remote store leaves the students the local
\* store's addTransaction makes of the students at the call, also when the
\* call is issued right after an addStudent or updateStudent
C17_StoresInterchangeable ==
    [][ RemoteTransactionCompletes'
           => students' = LocalReconcile(last'.arg.atCall, last'.arg.t)
      ]_vars

\* C18: last call wins: while an updateStudent(s') is under way, no step of a
\* call issued before it changes the student with the id of s'
C18_LastCallWins ==
    [][ \A r \in inflight :
           ( /\ r.k = "updateStudent"
             /\ last'.op = "return"
             /\ last'.call < r.call )
           => Find(students', r.id) = Find(students, r.id)
      ]_vars

\* C19: a refresh abandons the load that is in flight: once the later load has
\* written a collection, a select of the earlier load that returns afterwards
\* does not change that collection
C19_RefreshAbandonsLoad ==
    [][ \A r \in inflight, table \in TableSet :
           ( /\ r.k = "fetchData"
             /\ last'.op = "return"
             /\ last'.arg.k = "fetchData"
             /\ last'.call < r.call
             /\ last'.arg.table = table
             /\ Index(table) < Index(r.table) )
           => Collection(table)' = Collection(table)
      ]_vars

\* an income transaction of a student of `before` that carries only periods
\* the student has already paid
AlreadyPaid(t, before) ==
    /\ t.type = "income"
    /\ ReconcileCondition(t)
    /\ t.studentId \in Ids(before)
    /\ Range(t.paidMonths) \subseteq Range(Find(before, t.studentId).paidMonths)

\* the student of t has the same period set and status in after as in before
SamePeriodsAndStatus(t, before, after) ==
    LET old == Find(before, t.studentId)
        new == Find(after, t.studentId)
    IN  /\ Range(new.paidMonths) = Range(old.paidMonths)
        /\ new.financialStatus = old.financialStatus

\* C20: reconciliation is idempotent: an income addTransaction that carries
\* only periods its student has already paid leaves, once completed, the
\* student's period set and financialStatus as they were at the call
C20_ReconciliationIdempotent ==
    [][ /\ ( /\ impl = "local"
             /\ last'.op = "addTransaction"
             /\ AlreadyPaid(last'.arg, students) )
           => SamePeriodsAndStatus(last'.arg, students, students')
        /\ ( /\ RemoteTransactionCompletes'
             /\ AlreadyPaid(last'.arg.t, last'.arg.atCall) )
           => SamePeriodsAndStatus(last'.arg.t, last'.arg.atCall, students')
      ]_vars

\* the transactions added since start-up (newest first)
AddedTransactions(txs) == SelectSeq(txs, LAMBDA t : t # SeedTx)

\* the periods carried by the transactions of txs
RECURSIVE PeriodsOf(_)
PeriodsOf(txs) ==
    IF txs = <<>> THEN {} ELSE Range(txs[1].paidMonths) \cup PeriodsOf(Tail(txs))

\* every store operation so far was an income addTransaction with periods for
\* the stored student, and all of them have completed
PaymentsOnly ==
    /\ Alive
    /\ inflight = {}
    /\ ncalls > 0
    /\ SeedStudent.id \in Ids(students)
    /\ Len(AddedTransactions(transactions)) = ncalls
    /\ \A i \in 1..ncalls :
          /\ transactions[i].type = "income"
          /\ transactions[i].studentId = SeedStudent.id
          /\ Len(transactions[i].paidMonths) > 0

\* the stored student holds, as a set, its original periods and those of every
\* payment, with the status Classify gives that set
AllPeriodsMerged ==
    LET s == Find(students, SeedStudent.id)
    IN  /\ Range(s.paidMonths)
             = Range(SeedStudent.paidMonths)
                 \cup PeriodsOf(AddedTransactions(transactions))
        /\ s.financialStatus = getStudentFinancialStatus(s.paidMonths)

\* the step just taken ends the latest call, which was issued with no other
\* call pending: the calls came one after the other
EndsSequentialCall ==
    \/ impl = "local"
    \/ last.op = "return" /\ last.call = ncalls /\ last.arg.others = {}

\* C21: reconciliation is order-independent: payments t1 and t2 of a student
\* added one after the other, in either order, or their periods delivered in a
\* single payment, leave the student with the union of its original periods
\* and the periods of the payments, and with the status of that union
C21_OrderIndependent ==
    [][ (PaymentsOnly' /\ EndsSequentialCall') => AllPeriodsMerged' ]_vars

\* the reconciliation condition of an addTransaction(t) on the students sts
MeetsCondition(t, sts) ==
    /\ t.type = "income"
    /\ Truthy(t.studentId)
    /\ t.studentId \in Ids(sts)
    /\ Len(t.paidMonths) > 0

\* after is before with the student of t replaced by its reconciliation with t
ReconciledOnce(t, before, after) ==
    /\ Len(after) = Len(before)
    /\ \A i \in 1..Len(before) :
          after[i] = IF before[i].id = t.studentId
                     THEN Reconciled(before[i], t) ELSE before[i]

\* the student writes handed to the persistence adapter in the step
StudentWrites == {r \in inflight' \ inflight : r.table = "students"}

\* C22: an addTransaction that meets the reconciliation condition (income, the
\* id of a student of the store, periods) replaces that student once in memory
\* and hands one student write to the adapter; an addTransaction that does not
\* meet it changes no student and hands over no student write
C22_ReconciliationExactlyOnce ==
    [][ /\ ( /\ impl = "local"
             /\ last'.op = "addTransaction" )
           => IF MeetsCondition(last'.arg, students)
              THEN ReconciledOnce(last'.arg, students, students')
              ELSE students' = students
        /\ ( /\ impl = "remote"
             /\ last'.op = "addTransaction" )
           => students' = students /\ StudentWrites = {}
        /\ ( /\ impl = "remote"
             /\ last'.op = "return"
             /\ last'.arg.k = "addTransaction" )
           => IF MeetsCondition(last'.arg.t, last'.arg.atCall)
              THEN /\ ReconciledOnce(last'.arg.t, students, students')
                   /\ Cardinality(StudentWrites) = 1
              ELSE /\ students' = students
                   /\ StudentWrites = {}
        /\ ( /\ impl = "remote"
             /\ last'.op = "return"
             /\ last'.arg.k = "reconcile" )
           => students' = students /\ StudentWrites = {}
      ]_vars

\* the payments so far were issued back to back: none of them has been
\* rendered (local), or the call that ends now was pending together with
\* another one (remote)
IssuedBackToBack ==
    /\ ncalls >= 2
    /\ \/ /\ impl = "local"
          /\ AddedTransactions(view.transactions) = <<>>
       \/ /\ impl = "remote"
          /\ last.op = "return"
          /\ \/ last.call < ncalls
             \/ last.arg.others \cap {"addTransaction", "reconcile"} # {}

\* C23: no paid period is lost when payments overlap: once two addTransaction
\* calls for the same student, issued back to back, have both completed, the
\* student's paidMonths in memory holds every period of both transactions,
\* whatever the order in which their persistence calls return
C23_NoPeriodLost ==
    [][ (PaymentsOnly' /\ IssuedBackToBack')
           => PeriodsOf(AddedTransactions(transactions'))
                 \subseteq Range(Find(students', SeedStudent.id).paidMonths)
      ]_vars

\* C24: in the remote store, with no adapter failure, once every pending write
\* has completed the backend holds for each collection the entities of the
\* in-memory collection, with the same field values
C24_DurableEqualsMemory ==
    (impl = "remote" /\ inflight = {})
       => \A table \in TableSet :
             Range(FromRows(table, db[table])) = Range(Collection(table))

\* C25: in the remote store an entity added while a load was in flight is in
\* its in-memory collection once that load has completed and the write of the
\* add has succeeded
C25_AddSurvivesLoad ==
    [][ \A table \in TableSet :
           ( /\ impl = "remote"
             /\ last'.op = "return"
             /\ last'.ok
             /\ last'.arg.k \in {"addStudent", "addTransaction", "addEvent",
                                 "addEmployee"}
             /\ last'.arg.table = table
             /\ "fetchData" \in last'.arg.others
             /\ \A r \in inflight' : r.k # "fetchData" )
           => last'.arg.id \in Ids(Collection(table)')
      ]_vars

\* the loads (initial load and refreshes) that have a select pending
RunningLoads == {r \in inflight : r.k = "fetchData"}

\* C26: in the remote store no load is in flight whenever isLoading is false:
\* with a refresh invoked while another load is running, isLoading stays true
\* until every running load has completed
C26_NotLoadingMeansNoLoad ==
    (impl = "remote" /\ ~isLoading) => RunningLoads = {}

\* the initial load fails: JSON.parse throws on one of the stored values
LoadFails == \E table \in TableSet : localStorage[table].kind = Corrupt

\* C27: in the local store a failed load destroys no stored data: when one
\* stored collection cannot be parsed, the stored value of every other
\* collection stays as it is as long as no mutation has been called
C27_FailedLoadKeepsStored ==
    [][ \A table \in TableSet :
           ( /\ impl = "local"
             /\ LoadFails
             /\ ncalls' = 0
             /\ localStorage[table].kind = "json" )
           => localStorage'[table] = localStorage[table]
      ]_vars

\* the provider is at rest: the queued state has been committed and every save
\* effect of the commits so far has run to its end
SavesHaveRun == mounted /\ ~uncaught /\ Snapshot = view

\* C28: in the local store nothing is written to storage while isLoading is
\* true, and whenever isLoading is false and all save effects have run the
\* value stored under each of the four keys is the serialisation of the
\* corresponding in-memory collection
C28_StoredEqualsMemory ==
    /\ [][ localStorage' # localStorage => (~view'.isLoading /\ ~isLoading') ]_vars
    /\ []( (impl = "local" /\ ~isLoading /\ SavesHaveRun)
             => \A table \in TableSet :
                   /\ localStorage[table] = Saved(table, Collection(table))
                   /\ StoredLocal(table) = Collection(table) )

\* two mutations have been saved after a load that brought no transactions: an
\* event is stored with its dates, and the students key holds the students
C28_Witness ==
    /\ impl = "local"
    /\ last.op = "render"
    /\ last.ok
    /\ ncalls = 2
    /\ SavesHaveRun
    /\ Len(events) >= 1
    /\ localStorage.events = Saved("events", events)
    /\ students # <<>>
    /\ transactions = <<>>

\* the step just taken belongs to a call of one of the operations ops
StepOf(ops) ==
    \/ last.op \in ops
    \/ last.op = "return" /\ last.arg.k \in ops

\* the transaction of the addTransaction the step just taken belongs to
TransactionOfStep ==
    IF last.op = "addTransaction" THEN last.arg ELSE last.arg.t

\* after differs from before at most in paidMonths and financialStatus of the
\* students with the id sid
OnlyPeriodsAndStatus(before, after, sid) ==
    /\ Len(after) = Len(before)
    /\ \A i \in 1..Len(before) :
          IF before[i].id = sid
          THEN after[i] = [before[i] EXCEPT
                              !.paidMonths = after[i].paidMonths,
                              !.financialStatus = after[i].financialStatus]
          ELSE after[i] = before[i]

\* C29: each mutation changes only its own collection, and addTransaction
\* changes besides transactions at most the student with the transaction's
\* studentId, and of that student only paidMonths and financialStatus
C29_Frame ==
    [][ /\ StepOf({"addStudent", "updateStudent"})'
           => UNCHANGED <<transactions, events, employees>>
        /\ StepOf({"addEvent", "updateEvent", "deleteEvent"})'
           => UNCHANGED <<students, transactions, employees>>
        /\ StepOf({"addEmployee"})'
           => UNCHANGED <<students, transactions, events>>
        /\ StepOf({"addTransaction", "reconcile"})'
           => /\ UNCHANGED <<events, employees>>
              /\ OnlyPeriodsAndStatus(students, students',
                                      TransactionOfStep'.studentId)
      ]_vars

\* no two entities of s have the same id
UniqueIds(s) == \A i, j \in 1..Len(s) : s[i].id = s[j].id => i = j

============================================================================
